---- MODULE Spec2Model ----
(***************************************************************************)
(* VaultUSD peg simulation (src/sim/peg_simulation.py): the vault list,    *)
(* the shared ETH price, the history log and the operations of             *)
(* VaultUSDSimulator.                                                      *)
(*                                                                         *)
(* Amounts and prices are small integers.  The source computes in floats:  *)
(* for integers of this size c * p / d is a correctly rounded quotient and *)
(* the float literal 1.1 is the rounding of 11/10, so the comparisons      *)
(* against 1.1 and 1.5 agree with exact rational arithmetic.  A ratio is   *)
(* kept as a fraction in lowest terms with a positive denominator, so two  *)
(* ratios are equal exactly when the floats are.                           *)
(***************************************************************************)
EXTENDS Integers, Sequences, FiniteSets, TLC

\* ---------------------------------------------------------------- bounds
MaxVaults == 2          \* Vault objects created in one run of Spec
LedgerMaxVaults == 2    \* Vault objects created in one run of SpecLedger
MaxHistory == 2         \* entries the history log may reach in SpecLedger
SweepMaxVaults == 2     \* vaults a driver of SpecSweep opens
SweepMaxUpdates == 3    \* price updates a driver of SpecSweep makes

\* ---------------------------------------------------------------- inputs
\* Spec: the vault list and the price, with negative and zero amounts and
\* non-positive prices among the arguments
Owners == {"user1", "user2"}
Collaterals == {-1, 2}
Debts == {-1, 0, 3}
Prices == {-1, 0, 1, 2, 3}
InitPrices == {p \in Prices : p > 0}
Timestamps == {0, 1}

\* SpecLedger: the same operations and the history log, on fewer arguments
LedgerOwners == {"user1"}
LedgerCollaterals == {2}
LedgerDebts == {0, 3}
LedgerPrices == {1, 2}

\* SpecSweep: a driver that opens vaults, records, updates the price a number
\* of times and records again
SweepOwners == {"user1"}
SweepCollaterals == {-1, 1, 2}
SweepDebts == {0, 3}
SweepPrices == {1, 2, 3}

VARIABLES
    eth_price,  \* self.eth_price
    vaults,     \* self.vaults: the list of Vault objects, as object ids
    history,    \* self.history: the list of SystemState values
    handles,    \* every Vault object constructed so far; its index is its identity
    last,       \* the last call: its name, argument, outcome
    driver      \* the caller's program, when it follows one: its calls and its position

vars == <<eth_price, vaults, history, handles, last, driver>>

\* ---------------------------------------------------------------- ratios
Abs(n) == IF n < 0 THEN -n ELSE n

RECURSIVE GCD(_, _)
GCD(a, b) == IF b = 0 THEN a ELSE GCD(b, a % b)

\* float('inf')
Inf == [inf |-> TRUE, num |-> 1, den |-> 0]

\* the quotient n / d, d # 0
Quot(n, d) ==
    LET g == GCD(Abs(n), Abs(d))
        s == IF d < 0 THEN -1 ELSE 1
    IN [inf |-> FALSE, num |-> (s * n) \div g, den |-> (s * d) \div g]

\* r < t and r >= t for a ratio r and a finite threshold t
RatioLess(r, t) == ~r.inf /\ r.num * t.den < t.num * r.den
RatioGeq(r, t) == ~RatioLess(r, t)

COLLATERALIZATION_RATIO == [inf |-> FALSE, num |-> 3, den |-> 2]

\* mutant of LIQUIDATION_THRESHOLD: 1.3
LIQUIDATION_THRESHOLD_130 == [inf |-> FALSE, num |-> 13, den |-> 10]

LIQUIDATION_THRESHOLD == [inf |-> FALSE, num |-> 11, den |-> 10]

\* ---------------------------------------------------------------- Vault
Vault(collateral_eth, debt_susd, owner) ==
    [collateral_eth |-> collateral_eth, debt_susd |-> debt_susd, owner |-> owner]

\* Vault.__eq__ as @dataclass generates it: the fields compared as a tuple
VaultEq(objs, a, b) == objs[a] = objs[b]

\* mutant of list_remove: removal by position, the last element goes (list.pop())
list_remove_pop(objs, list, x) ==
    IF list = <<>>
    THEN [exc |-> "ValueError", list |-> list]
    ELSE [exc |-> "None", list |-> SubSeq(list, 1, Len(list) - 1)]

\* list.remove(x): drops the first element equal to x, ValueError when none is
list_remove(objs, list, x) ==
    LET hits == {i \in 1..Len(list) : VaultEq(objs, list[i], x)}
    IN IF hits = {}
       THEN [exc |-> "ValueError", list |-> list]
       ELSE LET k == CHOOSE i \in hits : \A j \in hits : i <= j
            IN [exc |-> "None",
                list |-> SubSeq(list, 1, k - 1) \o SubSeq(list, k + 1, Len(list))]

\* ---------------------------------------------------------------- health
get_vault_health(vault, price) ==
    IF vault.debt_susd = 0
    THEN Inf
    ELSE Quot(vault.collateral_eth * price, vault.debt_susd)

\* mutant of is_healthy: measured against LIQUIDATION_THRESHOLD
is_healthy_at_liquidation_threshold(vault, price) ==
    RatioGeq(get_vault_health(vault, price), LIQUIDATION_THRESHOLD)

is_healthy(vault, price) ==
    RatioGeq(get_vault_health(vault, price), COLLATERALIZATION_RATIO)

\* mutant of is_liquidatable: measured against COLLATERALIZATION_RATIO
is_liquidatable_below_min_ratio(vault, price) ==
    IF vault.debt_susd = 0
    THEN FALSE
    ELSE RatioLess(get_vault_health(vault, price), COLLATERALIZATION_RATIO)

is_liquidatable(vault, price) ==
    IF vault.debt_susd = 0
    THEN FALSE
    ELSE RatioLess(get_vault_health(vault, price), LIQUIDATION_THRESHOLD)

\* ---------------------------------------------------------------- liquidation
\* mutant of liquidate_vault: the guard is `if self.is_healthy(vault)`
liquidate_vault_unless_healthy(objs, list, price, v) ==
    IF is_healthy(objs[v], price)
    THEN [ret |-> "False", list |-> list]
    ELSE LET r == list_remove(objs, list, v)
         IN IF r.exc = "ValueError"
            THEN [ret |-> "ValueError", list |-> r.list]
            ELSE [ret |-> "True", list |-> r.list]

\* liquidate_vault on the vault list `list` at price `price`: the value
\* returned (or the exception raised) and the list afterwards
liquidate_vault(objs, list, price, v) ==
    IF ~is_liquidatable(objs[v], price)
    THEN [ret |-> "False", list |-> list]
    ELSE LET r == list_remove(objs, list, v)
         IN IF r.exc = "ValueError"
            THEN [ret |-> "ValueError", list |-> r.list]
            ELSE [ret |-> "True", list |-> r.list]

\* mutant of vaults_to_liquidate: what a loop that removes from self.vaults
\* while it iterates over it visits, the element after each removed one skipped
RECURSIVE vaults_to_liquidate_skipping(_, _, _)
vaults_to_liquidate_skipping(objs, list, price) ==
    IF list = <<>> THEN <<>>
    ELSE IF is_liquidatable(objs[Head(list)], price)
         THEN <<Head(list)>>
              \o (IF Len(list) = 1 THEN <<>>
                  ELSE vaults_to_liquidate_skipping(objs, Tail(Tail(list)), price))
         ELSE vaults_to_liquidate_skipping(objs, Tail(list), price)

\* [v for v in self.vaults if self.is_liquidatable(v)]
vaults_to_liquidate(objs, list, price) ==
    SelectSeq(list, LAMBDA v : is_liquidatable(objs[v], price))

\* for vault in vaults_to_liquidate: self.liquidate_vault(vault)
RECURSIVE liquidate_each(_, _, _, _)

\* mutant of liquidate_each: the loop ends after its first liquidation
liquidate_each_once(objs, todo, list, price) ==
    IF todo = <<>>
    THEN [ret |-> "None", list |-> list]
    ELSE LET r == liquidate_vault(objs, list, price, Head(todo))
         IN IF r.ret = "ValueError"
            THEN [ret |-> "ValueError", list |-> r.list]
            ELSE [ret |-> "None", list |-> r.list]

liquidate_each(objs, todo, list, price) ==
    IF todo = <<>>
    THEN [ret |-> "None", list |-> list]
    ELSE LET r == liquidate_vault(objs, list, price, Head(todo))
         IN IF r.ret = "ValueError"
            THEN [ret |-> "ValueError", list |-> r.list]
            ELSE liquidate_each(objs, Tail(todo), r.list, price)

\* ---------------------------------------------------------------- accounting
RECURSIVE sum_collateral(_, _)
sum_collateral(objs, list) ==
    IF list = <<>> THEN 0
    ELSE objs[Head(list)].collateral_eth + sum_collateral(objs, Tail(list))

RECURSIVE sum_debt(_, _)
sum_debt(objs, list) ==
    IF list = <<>> THEN 0
    ELSE objs[Head(list)].debt_susd + sum_debt(objs, Tail(list))

\* mutant of get_system_state: the totals are taken over every vault ever
\* created, liquidated ones included
get_system_state_all_created(objs, list, price, timestamp) ==
    LET all == [i \in 1..Len(objs) |-> i]
        total_collateral == sum_collateral(objs, all)
        total_debt == sum_debt(objs, all)
        ratio == IF total_debt = 0
                 THEN Inf
                 ELSE Quot(total_collateral * price, total_debt)
    IN [total_collateral_eth |-> total_collateral,
        total_debt_susd |-> total_debt,
        eth_price_usd |-> price,
        collateralization_ratio |-> ratio,
        timestamp |-> timestamp]

get_system_state(objs, list, price, timestamp) ==
    LET total_collateral == sum_collateral(objs, list)
        total_debt == sum_debt(objs, list)
        ratio == IF total_debt = 0
                 THEN Inf
                 ELSE Quot(total_collateral * price, total_debt)
    IN [total_collateral_eth |-> total_collateral,
        total_debt_susd |-> total_debt,
        eth_price_usd |-> price,
        collateralization_ratio |-> ratio,
        timestamp |-> timestamp]

\* ---------------------------------------------------------------- state machine
Call(op, arg, ret) == [op |-> op, arg |-> arg, ret |-> ret]

NoArg == [none |-> TRUE]

\* a caller that follows no program
NoDriver == [script |-> <<>>, pc |-> 1]

Init ==
    /\ eth_price \in InitPrices
    /\ vaults = <<>>
    /\ history = <<>>
    /\ handles = <<>>
    /\ last = Call("__init__", NoArg, [kind |-> "None"])
    /\ driver = NoDriver

InitLedger ==
    /\ eth_price \in LedgerPrices
    /\ vaults = <<>>
    /\ history = <<>>
    /\ handles = <<>>
    /\ last = Call("__init__", NoArg, [kind |-> "None"])
    /\ driver = NoDriver

\* mutant of create_vault: one vault per owner, the owner's earlier vaults
\* are dropped from the list
create_vault_one_per_owner(owner, collateral_eth, debt_susd) ==
    /\ handles' = Append(handles, Vault(collateral_eth, debt_susd, owner))
    /\ vaults' = Append(SelectSeq(vaults, LAMBDA v : handles[v].owner # owner),
                        Len(handles) + 1)
    /\ last' = Call("create_vault",
                    [owner |-> owner, collateral_eth |-> collateral_eth,
                     debt_susd |-> debt_susd],
                    [kind |-> "Vault", id |-> Len(handles) + 1])
    /\ UNCHANGED <<eth_price, history>>

\* mutant of create_vault: the new vault is appended and the list is then
\* swept at the current price
create_vault_sweeping(owner, collateral_eth, debt_susd) ==
    LET objs == Append(handles, Vault(collateral_eth, debt_susd, owner))
        list == Append(vaults, Len(handles) + 1)
        todo == vaults_to_liquidate(objs, list, eth_price)
    IN /\ handles' = objs
       /\ vaults' = liquidate_each(objs, todo, list, eth_price).list
       /\ last' = Call("create_vault",
                       [owner |-> owner, collateral_eth |-> collateral_eth,
                        debt_susd |-> debt_susd],
                       [kind |-> "Vault", id |-> Len(handles) + 1])
       /\ UNCHANGED <<eth_price, history>>

create_vault(owner, collateral_eth, debt_susd) ==
    /\ handles' = Append(handles, Vault(collateral_eth, debt_susd, owner))
    /\ vaults' = Append(vaults, Len(handles) + 1)
    /\ last' = Call("create_vault",
                    [owner |-> owner, collateral_eth |-> collateral_eth,
                     debt_susd |-> debt_susd],
                    [kind |-> "Vault", id |-> Len(handles) + 1])
    /\ UNCHANGED <<eth_price, history>>

\* liquidate_vault called by the driver on a Vault object it holds
LiquidateVault(v) ==
    LET r == liquidate_vault(handles, vaults, eth_price, v)
    IN /\ vaults' = r.list
       /\ last' = Call("liquidate_vault", [vault |-> v], [kind |-> r.ret])
       /\ UNCHANGED <<eth_price, history, handles>>

\* mutant of update_price: the vaults are swept before the price is stored,
\* at the price of before the call
update_price_sweep_first(new_price) ==
    LET todo == vaults_to_liquidate(handles, vaults, eth_price)
        r == liquidate_each(handles, todo, vaults, eth_price)
    IN /\ eth_price' = new_price
       /\ vaults' = r.list
       /\ last' = Call("update_price",
                       [new_price |-> new_price,
                        again |-> last.op = "update_price"
                                  /\ last.arg.new_price = new_price],
                       [kind |-> r.ret])
       /\ UNCHANGED <<history, handles>>

\* mutant of update_price: the vaults are swept at the new price, which is
\* not stored
update_price_not_stored(new_price) ==
    LET todo == vaults_to_liquidate(handles, vaults, new_price)
        r == liquidate_each(handles, todo, vaults, new_price)
    IN /\ vaults' = r.list
       /\ last' = Call("update_price",
                       [new_price |-> new_price,
                        again |-> last.op = "update_price"
                                  /\ last.arg.new_price = new_price],
                       [kind |-> r.ret])
       /\ UNCHANGED <<eth_price, history, handles>>

update_price(new_price) ==
    LET todo == vaults_to_liquidate(handles, vaults, new_price)
        r == liquidate_each(handles, todo, vaults, new_price)
    IN /\ eth_price' = new_price
       /\ vaults' = r.list
       /\ last' = Call("update_price",
                       [new_price |-> new_price,
                        again |-> last.op = "update_price"
                                  /\ last.arg.new_price = new_price],
                       [kind |-> r.ret])
       /\ UNCHANGED <<history, handles>>

\* mutant of GetSystemState: the vaults liquidatable at the current price are
\* liquidated before the totals are taken
GetSystemState_sweeping(timestamp) ==
    LET todo == vaults_to_liquidate(handles, vaults, eth_price)
        list == liquidate_each(handles, todo, vaults, eth_price).list
    IN /\ vaults' = list
       /\ last' = Call("get_system_state", [timestamp |-> timestamp],
                       [kind |-> "SystemState",
                        state |-> get_system_state(handles, list, eth_price, timestamp)])
       /\ UNCHANGED <<eth_price, history, handles>>

\* get_system_state called by the driver
GetSystemState(timestamp) ==
    /\ last' = Call("get_system_state", [timestamp |-> timestamp],
                    [kind |-> "SystemState",
                     state |-> get_system_state(handles, vaults, eth_price, timestamp)])
    /\ UNCHANGED <<eth_price, vaults, history, handles>>

\* mutant of record_state: the snapshot is labelled by an internal counter,
\* the length of the history
record_state_auto_index(timestamp) ==
    /\ history' = Append(history,
                         get_system_state(handles, vaults, eth_price, Len(history)))
    /\ last' = Call("record_state", [timestamp |-> timestamp], [kind |-> "None"])
    /\ UNCHANGED <<eth_price, vaults, handles>>

record_state(timestamp) ==
    /\ history' = Append(history, get_system_state(handles, vaults, eth_price, timestamp))
    /\ last' = Call("record_state", [timestamp |-> timestamp], [kind |-> "None"])
    /\ UNCHANGED <<eth_price, vaults, handles>>

\* The history log is written by record_state alone and read by no operation
\* on the vault list or the price: Spec leaves record_state out and draws the
\* arguments from the larger sets, SpecLedger has every operation.
Next ==
    \/ /\ Len(handles) < MaxVaults
       /\ \E o \in Owners, c \in Collaterals, d \in Debts : create_vault(o, c, d)
       /\ UNCHANGED driver
    \/ /\ \E v \in 1..Len(handles) : LiquidateVault(v)
       /\ UNCHANGED driver
    \/ /\ \E p \in Prices : update_price(p)
       /\ UNCHANGED driver
    \/ /\ \E t \in Timestamps : GetSystemState(t)
       /\ UNCHANGED driver

Spec == Init /\ [][Next]_vars

NextLedger ==
    \/ /\ Len(handles) < LedgerMaxVaults
       /\ \E o \in LedgerOwners, c \in LedgerCollaterals, d \in LedgerDebts :
              create_vault(o, c, d)
       /\ UNCHANGED driver
    \/ /\ \E v \in 1..Len(handles) : LiquidateVault(v)
       /\ UNCHANGED driver
    \/ /\ \E p \in LedgerPrices : update_price(p)
       /\ UNCHANGED driver
    \/ /\ \E t \in Timestamps : GetSystemState(t)
       /\ UNCHANGED driver
    \/ /\ Len(history) < MaxHistory
       /\ \E t \in Timestamps : record_state(t)
       /\ UNCHANGED driver

SpecLedger == InitLedger /\ [][NextLedger]_vars

\* ---------------------------------------------------------------- scripted drivers
\* the calls a driver makes
CreateCall(owner, collateral_eth, debt_susd) ==
    [op |-> "create_vault", owner |-> owner, collateral_eth |-> collateral_eth,
     debt_susd |-> debt_susd]
UpdateCall(new_price) == [op |-> "update_price", new_price |-> new_price]
RecordCall(timestamp) == [op |-> "record_state", timestamp |-> timestamp]

\* the driver's next call is a call of op, and it moves past it
DriverAt(op) ==
    /\ driver.pc <= Len(driver.script)
    /\ driver.script[driver.pc].op = op
    /\ driver' = [driver EXCEPT !.pc = @ + 1]

DriverCreateVault ==
    /\ DriverAt("create_vault")
    /\ LET c == driver.script[driver.pc]
       IN create_vault(c.owner, c.collateral_eth, c.debt_susd)

DriverUpdatePrice ==
    /\ DriverAt("update_price")
    /\ update_price(driver.script[driver.pc].new_price)

DriverRecordState ==
    /\ DriverAt("record_state")
    /\ record_state(driver.script[driver.pc].timestamp)

\* all sequences over S of length at most n
RECURSIVE SeqsUpTo(_, _)
SeqsUpTo(S, n) ==
    IF n = 0 THEN {<<>>}
    ELSE LET shorter == SeqsUpTo(S, n - 1)
         IN shorter \cup {Append(q, x) : q \in shorter, x \in S}

\* every list made of elements of s in their order (s itself among them)
RECURSIVE SubLists(_)
SubLists(s) ==
    IF s = <<>> THEN {<<>>}
    ELSE LET rest == SubLists(Tail(s))
         IN rest \cup {<<Head(s)>> \o q : q \in rest}

\* for i, price in enumerate(prices): update_price(price); record_state(i + 1)
RECURSIVE price_loop(_, _)
price_loop(prices, i) ==
    IF prices = <<>> THEN <<>>
    ELSE <<UpdateCall(Head(prices)), RecordCall(i + 1)>>
         \o price_loop(Tail(prices), i + 1)

\* simulate_price_shock: the calls it makes on the simulator, for a price list
simulate_price_shock(prices) ==
    <<CreateCall("user1", 10, 10000),
      CreateCall("user2", 5, 5000),
      CreateCall("user3", 3, 3000),
      RecordCall(0)>> \o price_loop(prices, 0)

SHOCK_INITIAL_PRICE == 2000
SHOCK_PRICES == <<2000, 1800, 1600, 1400, 1200, 1000, 800>>

\* simulate_price_shock on the price list of the source and on every list
\* that leaves some of its prices out
InitScenario ==
    /\ eth_price = SHOCK_INITIAL_PRICE
    /\ vaults = <<>>
    /\ history = <<>>
    /\ handles = <<>>
    /\ last = Call("__init__", NoArg, [kind |-> "None"])
    /\ \E prices \in SubLists(SHOCK_PRICES) :
           driver = [script |-> simulate_price_shock(prices), pc |-> 1]

NextScenario ==
    \/ DriverCreateVault
    \/ DriverUpdatePrice
    \/ DriverRecordState

SpecScenario == InitScenario /\ [][NextScenario]_vars

\* a driver that opens some vaults, records, makes some price updates and
\* records again
SweepVaults ==
    {CreateCall(o, c, d) : o \in SweepOwners, c \in SweepCollaterals, d \in SweepDebts}
SweepUpdates == {UpdateCall(p) : p \in SweepPrices}

sweep_script(creates, updates) ==
    creates \o <<RecordCall(0)>> \o updates \o <<RecordCall(1)>>

InitSweep ==
    /\ eth_price \in SweepPrices
    /\ vaults = <<>>
    /\ history = <<>>
    /\ handles = <<>>
    /\ last = Call("__init__", NoArg, [kind |-> "None"])
    /\ \E creates \in SeqsUpTo(SweepVaults, SweepMaxVaults),
          updates \in SeqsUpTo(SweepUpdates, SweepMaxUpdates) :
           driver = [script |-> sweep_script(creates, updates), pc |-> 1]

NextSweep ==
    \/ DriverCreateVault
    \/ DriverUpdatePrice
    \/ DriverRecordState

SpecSweep == InitSweep /\ [][NextSweep]_vars

\* ---------------------------------------------------------------- properties
\* The statements below are written in the terms of the specification
\* (position, registry, liability), from the arithmetic the specification
\* gives, not from the operators above.
Registry == {vaults[i] : i \in 1..Len(vaults)}
Collateral(v) == handles[v].collateral_eth
Liability(v) == handles[v].debt_susd

\* collateral * p / liability >= 1.1, for liability # 0
AtLeastThreshold(v, p) ==
    IF Liability(v) > 0
    THEN 10 * Collateral(v) * p >= 11 * Liability(v)
    ELSE 10 * Collateral(v) * p <= 11 * Liability(v)

\* liability # 0 and collateral * p / liability < 1.1
Liquidatable(v, p) == Liability(v) # 0 /\ ~AtLeastThreshold(v, p)

\* the positions of a list that are not liquidatable at p, in the list's order
RECURSIVE Survivors(_, _)
Survivors(list, p) ==
    IF list = <<>> THEN <<>>
    ELSE IF Liquidatable(Head(list), p)
         THEN Survivors(Tail(list), p)
         ELSE <<Head(list)>> \o Survivors(Tail(list), p)

\* C1: when update_price(new_price) has returned, the price is new_price and
\* every position left in the registry has liability 0 or
\* collateral * new_price / liability >= 1.1.
C1_NoLiquidatableAfterUpdate ==
    last.op = "update_price" =>
        /\ last.ret.kind = "None"
        /\ eth_price = last.arg.new_price
        /\ \A v \in Registry : Liability(v) = 0 \/ AtLeastThreshold(v, eth_price)

\* C1 witness: an update has returned, a position with a liability is still
\* open and a position that is liquidatable at the new price is gone.
C1_Witness ==
    /\ last.op = "update_price"
    /\ \E v \in Registry : Liability(v) # 0
    /\ \E v \in 1..Len(handles) : v \notin Registry /\ Liquidatable(v, eth_price)

\* C2: update_price(new_price) removes exactly the positions that are
\* liquidatable at new_price: the registry afterwards is the registry before
\* without them, each position decided on its own, by identity.
C2_UpdateRemovesExactlyLiquidatable ==
    [][last'.op = "update_price" => vaults' = Survivors(vaults, eth_price')]_vars

\* C2 witness: an update has returned; a position that is liquidatable at the
\* new price is gone and a position that is not, of the same owner and with a
\* liability, is still open.
C2_Witness ==
    /\ last.op = "update_price"
    /\ \E a \in 1..Len(handles), c \in Registry :
           /\ a \notin Registry
           /\ Liquidatable(a, eth_price)
           /\ Liability(c) # 0
           /\ handles[c].owner = handles[a].owner

\* C3: update_price(new_price) with new_price <= 0 fails with InvalidPrice and
\* leaves the price and the registry as they were.
C3_NonPositivePriceRejected ==
    [][(last'.op = "update_price" /\ last'.arg.new_price <= 0) =>
           /\ last'.ret.kind = "InvalidPrice"
           /\ eth_price' = eth_price
           /\ vaults' = vaults]_vars

\* C4: open_position with a negative collateral or a negative liability fails
\* with InvalidAmount and adds no position to the registry.
C4_NegativeAmountRejected ==
    [][(/\ last'.op = "create_vault"
        /\ (last'.arg.collateral_eth < 0 \/ last'.arg.debt_susd < 0)) =>
           /\ last'.ret.kind = "InvalidAmount"
           /\ vaults' = vaults]_vars

\* C5: liquidate on a position that is not liquidatable at the current price
\* returns false and changes neither the registry, nor the price, nor the
\* history.
C5_LiquidateHealthyIsNoOp ==
    [][(/\ last'.op = "liquidate_vault"
        /\ ~Liquidatable(last'.arg.vault, eth_price)) =>
           /\ last'.ret.kind = "False"
           /\ vaults' = vaults
           /\ eth_price' = eth_price
           /\ history' = history]_vars

\* C5 witness: liquidate has returned false for an open position that has a
\* liability, with a snapshot in the history.
C5_Witness ==
    /\ last.op = "liquidate_vault"
    /\ last.ret.kind = "False"
    /\ last.arg.vault \in Registry
    /\ Liability(last.arg.vault) # 0
    /\ history # <<>>

\* C6: liquidate on a position that is open and liquidatable at the current
\* price returns true and removes that very position: its handle is absent
\* afterwards and every other position is still open.
C6_LiquidateRemovesByIdentity ==
    [][(/\ last'.op = "liquidate_vault"
        /\ last'.arg.vault \in Registry
        /\ Liquidatable(last'.arg.vault, eth_price)) =>
           /\ last'.ret.kind = "True"
           /\ vaults' = SelectSeq(vaults, LAMBDA v : v # last'.arg.vault)]_vars

\* C7: liquidate on a handle whose position has been removed fails with
\* NotFound (the ValueError of list.remove) and removes no position.
C7_StaleHandleIsNotFound ==
    [][(/\ last'.op = "liquidate_vault"
        /\ last'.arg.vault \notin Registry) =>
           /\ last'.ret.kind = "ValueError"
           /\ vaults' = vaults]_vars

\* C8: update_price called again with the same price, nothing in between,
\* leaves the registry as the first call left it.
C8_SecondUpdateRemovesNothing ==
    [][(last'.op = "update_price" /\ last'.arg.again) => vaults' = vaults]_vars

\* C8 witness: the second of two updates at one price has returned, with a
\* position liquidated at that price and another still open.
C8_Witness ==
    /\ last.op = "update_price"
    /\ last.arg.again
    /\ Registry # {}
    /\ \E v \in 1..Len(handles) : v \notin Registry /\ Liquidatable(v, eth_price)

\* the sums of the collateral and of the liability over a set of positions
RECURSIVE TotalCollateral(_)
TotalCollateral(S) ==
    IF S = {} THEN 0
    ELSE LET v == CHOOSE x \in S : TRUE
         IN Collateral(v) + TotalCollateral(S \ {v})

RECURSIVE TotalLiability(_)
TotalLiability(S) ==
    IF S = {} THEN 0
    ELSE LET v == CHOOSE x \in S : TRUE
         IN Liability(v) + TotalLiability(S \ {v})

\* a snapshot of the registry and the price as they are now
SnapshotOfNow(s) ==
    LET tc == TotalCollateral(Registry)
        tl == TotalLiability(Registry)
        r == s.collateralization_ratio
    IN /\ s.total_collateral_eth = tc
       /\ s.total_debt_susd = tl
       /\ s.eth_price_usd = eth_price
       /\ tl > 0 => (~r.inf /\ r.den # 0 /\ r.num * tl = r.den * (tc * eth_price))
       /\ tl = 0 => r.inf

\* C9: the snapshot that snapshot returns, and the one record appends, has the
\* sums over the open positions as its totals, the current price as its price
\* and (total_collateral * price) / total_liability as its ratio, the infinite
\* sentinel when total_liability is 0.
C9_SnapshotTotalsAndRatio ==
    /\ last.op = "get_system_state" => SnapshotOfNow(last.ret.state)
    /\ last.op = "record_state" =>
           (history # <<>> /\ SnapshotOfNow(history[Len(history)]))

\* C9 witness: record has appended a snapshot with a positive total liability
\* while one position is open and a liquidated one is not.
C9_Witness ==
    /\ last.op = "record_state"
    /\ history[Len(history)].total_debt_susd > 0
    /\ \E v \in 1..Len(handles) : v \notin Registry /\ Liability(v) > 0

\* C10: at every price p > 0 a position with liability 0 has infinite health
\* and is not liquidatable, and a position with a liability > 0 is liquidatable
\* iff collateral * p / liability < 1.1; no update_price removes a position
\* whose liability is 0.
C10_LiquidatableIffBelowThreshold ==
    /\ [](\A v \in 1..Len(handles), p \in Prices :
            p > 0 =>
              /\ Liability(v) = 0 =>
                     (/\ get_vault_health(handles[v], p).inf
                      /\ ~is_liquidatable(handles[v], p))
              /\ Liability(v) > 0 =>
                     (is_liquidatable(handles[v], p)
                        <=> 10 * Collateral(v) * p < 11 * Liability(v)))
    /\ [][last'.op = "update_price" =>
            \A v \in Registry : Liability(v) = 0 => v \in Registry']_vars

\* C10 witness: an update has returned at a price > 0, a position with
\* liability 0 is open and a position with a liability > 0 was liquidated.
C10_Witness ==
    /\ last.op = "update_price"
    /\ eth_price > 0
    /\ \E v \in Registry : Liability(v) = 0
    /\ \E v \in 1..Len(handles) :
           v \notin Registry /\ Liability(v) > 0 /\ Liquidatable(v, eth_price)

\* C11: record(sequence_index) appends one snapshot, labelled with the index
\* the caller gave, and leaves the earlier entries as they were; no other
\* operation changes the history.
C11_HistoryAppendOnly ==
    [][/\ last'.op = "record_state" =>
             /\ Len(history') = Len(history) + 1
             /\ SubSeq(history', 1, Len(history)) = history
             /\ history'[Len(history')].timestamp = last'.arg.timestamp
       /\ last'.op # "record_state" => history' = history]_vars

\* C11 witness: two snapshots recorded, the second with an index that is not
\* above the first's, and an operation other than record made since.
C11_Witness ==
    /\ Len(history) = 2
    /\ history[2].timestamp <= history[1].timestamp
    /\ last.op \in {"update_price", "liquidate_vault", "create_vault", "get_system_state"}

\* C12: simulate_price_shock on the prices 2000, 1800, 1600, 1400, 1200, 1000,
\* 800: the three positions are open after every update down to 1200 and gone
\* after the update to 1000; the snapshots carry the indices 0, 1, 2, ... in
\* order; at the end no position is open and the history has 8 entries, the
\* last with total_liability 0 and the infinite ratio.
C12_PriceShockScenario ==
    driver.script = simulate_price_shock(SHOCK_PRICES) =>
        /\ \A k \in 1..Len(history) : history[k].timestamp = k - 1
        /\ (last.op = "update_price" /\ eth_price >= 1200) => Len(vaults) = 3
        /\ (last.op = "update_price" /\ eth_price <= 1000) => vaults = <<>>
        /\ \A k \in 1..Len(history) :
               /\ history[k].eth_price_usd >= 1200 =>
                      /\ history[k].total_collateral_eth = 18
                      /\ history[k].total_debt_susd = 18000
               /\ history[k].eth_price_usd <= 1000 =>
                      /\ history[k].total_debt_susd = 0
                      /\ history[k].collateralization_ratio.inf
        /\ driver.pc > Len(driver.script) =>
               /\ vaults = <<>>
               /\ Len(history) = 8
               /\ history[8].eth_price_usd = 800
               /\ history[8].total_debt_susd = 0
               /\ history[8].collateralization_ratio.inf

\* C12 witness: simulate_price_shock has run to its end on the source's prices.
C12_Witness ==
    /\ driver.script = simulate_price_shock(SHOCK_PRICES)
    /\ driver.pc > Len(driver.script)
    /\ Len(history) = 8

\* C13: every position in the registry has collateral >= 0 and liability >= 0.
C13_AmountsNonNegative ==
    \A v \in Registry : Collateral(v) >= 0 /\ Liability(v) >= 0

\* C14: snapshot and record leave the registry and the price as they are,
\* also when a position in the registry is liquidatable at the current price.
C14_SnapshotAndRecordArePure ==
    [][last'.op \in {"get_system_state", "record_state"} =>
           /\ vaults' = vaults
           /\ handles' = handles
           /\ eth_price' = eth_price]_vars

\* C14 witness: a snapshot has been taken or recorded while a position that
\* is liquidatable at the current price is in the registry.
C14_Witness ==
    /\ last.op \in {"get_system_state", "record_state"}
    /\ \E v \in Registry : Liquidatable(v, eth_price)

\* C15: update_price(p) leaves the price equal to p and no other operation
\* changes the price.
C15_PriceWrittenOnlyByUpdate ==
    [][/\ last'.op = "update_price" => eth_price' = last'.arg.new_price
       /\ last'.op # "update_price" => eth_price' = eth_price]_vars

\* C15 witness: the price was updated between two recorded snapshots and a
\* position has been opened or liquidated, or a snapshot taken, since.
C15_Witness ==
    /\ Len(history) = 2
    /\ history[1].eth_price_usd # history[2].eth_price_usd
    /\ eth_price = history[2].eth_price_usd
    /\ last.op \in {"create_vault", "liquidate_vault", "get_system_state"}

\* C16: a position in the registry keeps its owner, collateral and liability;
\* a position enters the registry by open alone and leaves it by liquidate or
\* update_price alone, and these two never make the registry longer.
C16_PositionsCreatedByOpenDestroyedByLiquidation ==
    [][/\ \A v \in Registry : handles'[v] = handles[v]
       /\ Registry' \ Registry # {} => last'.op = "create_vault"
       /\ Registry \ Registry' # {} => last'.op \in {"liquidate_vault", "update_price"}
       /\ last'.op \in {"liquidate_vault", "update_price"} =>
              Len(vaults') <= Len(vaults)]_vars

\* C16 witness: a position was opened after another of the same owner, which
\* is still open, and a price update has been made since.
C16_Witness ==
    /\ last.op = "update_price"
    /\ \E a, b \in Registry : a < b /\ handles[a].owner = handles[b].owner

\* C18: open_position appends the new position to the registry and removes
\* none, and a position stays in the registry until an update_price or a
\* liquidate.
C18_OpenDoesNotSweep ==
    [][/\ last'.op = "create_vault" =>
             /\ last'.ret.id \notin Registry
             /\ vaults' = Append(vaults, last'.ret.id)
             /\ handles'[last'.ret.id] =
                    Vault(last'.arg.collateral_eth, last'.arg.debt_susd, last'.arg.owner)
       /\ last'.op \notin {"update_price", "liquidate_vault"} =>
             Registry \subseteq Registry']_vars

\* C18 witness: a position has just been opened; it and an older position are
\* both in the registry and liquidatable at the current price.
C18_Witness ==
    /\ last.op = "create_vault"
    /\ Len(vaults) >= 2
    /\ \A v \in Registry : Liquidatable(v, eth_price)

\* 1.1 <= collateral * p / liability < 1.5, for a liability > 0
InBufferZone(v, p) ==
    /\ Liability(v) > 0
    /\ 10 * Collateral(v) * p >= 11 * Liability(v)
    /\ 2 * Collateral(v) * p < 3 * Liability(v)

\* C17: at any price a liquidatable position is not adequately collateralized,
\* and a position with a liability > 0 and a health in [1.1, 1.5) is neither
\* adequately collateralized nor liquidatable; update_price at such a price
\* leaves it in the registry.
C17_BufferZone ==
    /\ [](\A v \in 1..Len(handles), p \in Prices :
            /\ is_liquidatable(handles[v], p) => ~is_healthy(handles[v], p)
            /\ InBufferZone(v, p) =>
                   (~is_healthy(handles[v], p) /\ ~is_liquidatable(handles[v], p)))
    /\ [][last'.op = "update_price" =>
            \A v \in Registry : InBufferZone(v, eth_price') => v \in Registry']_vars

\* C17 witness: an update has returned; a position whose health is in
\* [1.1, 1.5) at the new price is open and a liquidatable one is gone.
C17_Witness ==
    /\ last.op = "update_price"
    /\ \E v \in Registry : InBufferZone(v, eth_price)
    /\ \E v \in 1..Len(handles) : v \notin Registry /\ Liquidatable(v, eth_price)

\* the prices of the update_price calls the driver has made
AppliedPrices ==
    {driver.script[i].new_price :
        i \in {j \in 1..(driver.pc - 1) : driver.script[j].op = "update_price"}}

Minimum(S) == CHOOSE x \in S : \A y \in S : x <= y

\* every position opened so far, in the order of opening
AllOpened == [i \in 1..Len(handles) |-> i]

\* C19: the positions all have collateral >= 0 and liability >= 0 and, since
\* the last open, update_price has been called with the positive prices
\* p1..pn: the registry holds exactly the positions that are not liquidatable
\* at min(p1..pn).
C19_SurvivorsAtMinimumPrice ==
    (/\ AppliedPrices # {}
     /\ \A v \in 1..Len(handles) : Collateral(v) >= 0 /\ Liability(v) >= 0) =>
        vaults = Survivors(AllOpened, Minimum(AppliedPrices))

\* C19 witness: the price went down and up again; a position that is
\* liquidatable at the lowest price only is gone and another is still open.
C19_Witness ==
    /\ last.op = "update_price"
    /\ \A v \in 1..Len(handles) : Collateral(v) >= 0 /\ Liability(v) >= 0
    /\ Cardinality(AppliedPrices) >= 2
    /\ eth_price > Minimum(AppliedPrices)
    /\ Registry # {}
    /\ \E v \in 1..Len(handles) :
           /\ v \notin Registry
           /\ Liquidatable(v, Minimum(AppliedPrices))
           /\ ~Liquidatable(v, eth_price)

\* C20: of two snapshots recorded one after the other with update_price calls
\* alone between them, the second has a total_collateral and a total_liability
\* no larger than the first's, and its total_liability is the sum of the
\* liabilities of some of the positions the first one counted.
C20_TotalsNonIncreasing ==
    Len(history) = 2 =>
        /\ history[2].total_collateral_eth <= history[1].total_collateral_eth
        /\ history[2].total_debt_susd <= history[1].total_debt_susd
        /\ \E S \in SUBSET (1..Len(handles)) :
               history[2].total_debt_susd = TotalLiability(S)

====
